---------------------------- MODULE Spec2Model ----------------------------
(***************************************************************************)
(* Model of pymzml.file_classes.standardMzml.StandardMzml: the offset      *)
(* index and seek engine for uncompressed mzML files.                      *)
(*                                                                         *)
(* A file is described by its byte layout (where every tag starts and      *)
(* ends) instead of by its bytes, so that the program's own chunk sizes    *)
(* can be kept.  A regular-expression search over a window [a, b) of the   *)
(* file is computed from the layout: a pattern matches a tag when the      *)
(* bytes the pattern needs lie inside the window.  Layout assumptions:     *)
(*   - one tag per line; element bodies are filler holding none of the     *)
(*     bytes '<', '>' and ' ';                                             *)
(*   - an opening tag is <spectrum index="0" id="ID" defaultArrayLength=   *)
(*     "1"> (likewise <chromatogram ...>);                                 *)
(*   - an id is "N", "scan=N", "sample=1 period=1 cycle=N experiment=1",    *)
(*     "N_raw" (an id that does not end in digits) or "sourceFile=" + 90   *)
(*     letters + "_scan=N" (an id longer than 100 bytes).                  *)
(***************************************************************************)
EXTENDS Integers, Sequences, FiniteSets, TLC

VARIABLES
    file,          \* the layout of the file at self.path (never changes)
    cfg,           \* the constructor's inputs build_index_from_scratch, index_regex
    offset_dict,   \* self.offset_dict: key -> offset record
    seek_list,     \* self.seek_list: sequence of <<scan, offset>>
    fh,            \* self.file_handler: [open, pos]
    result,        \* what the last call did and returned
    first_hit,     \* one earlier get of a key of offset_dict, kept to compare
                   \* later ones with
    handles        \* the binary read handles that are open, counted up to
                   \* MaxHandles

vars == <<file, cfg, offset_dict, seek_list, fh, result, first_hit, handles>>

(***************************************************************************)
(* Bounds of the model.                                                    *)
(***************************************************************************)
MaxSpectra == 3
MaxHandles == 1

(***************************************************************************)
(* Small helpers.                                                          *)
(***************************************************************************)
Min(a, b) == IF a < b THEN a ELSE b
Max(a, b) == IF a > b THEN a ELSE b

RECURSIVE Digits(_)
Digits(n) == IF n < 10 THEN 1 ELSE 1 + Digits(n \div 10)

\* Python's int(x) of a quotient: truncation toward zero.
TruncDiv(a, b) == IF a >= 0 THEN a \div b ELSE -((-a) \div b)

(***************************************************************************)
(* Identifiers.  A string id is kept by its format and its number; an      *)
(* integer key and a string key are never equal (Python: 5 != "5").        *)
(***************************************************************************)
IntKey(n) == [t |-> "int", fmt |-> "int", n |-> n]
StrKey(fmt, n) == [t |-> "str", fmt |-> fmt, n |-> n]
TICKey == [t |-> "str", fmt |-> "TIC", n |-> 0]
\* The id "BPC" of a second chromatogram
BPCKey == [t |-> "str", fmt |-> "BPC", n |-> 0]

IdLen(id) ==
    CASE id.fmt = "plain" -> Digits(id.n)
      [] id.fmt = "scan"  -> 5 + Digits(id.n)
      [] id.fmt = "sciex" -> 24 + Digits(id.n) + 13
      [] id.fmt \in {"TIC", "BPC"} -> 3
      [] id.fmt = "raw"   -> Digits(id.n) + 4
      [] id.fmt = "long"  -> 11 + 90 + 6 + Digits(id.n)

\* re.search(b"[0-9]*$", id).group(): the trailing digits, -1 for none
\* (int(b"") raises ValueError).
TrailingDigits(id) ==
    CASE id.fmt \in {"plain", "scan", "long"} -> id.n
      [] id.fmt = "sciex" -> 1
      [] id.fmt \in {"TIC", "BPC", "raw"} -> -1


(***************************************************************************)
(* The file layout.  An element (spectrum or chromatogram) is              *)
(*   pos    offset of the '<' of its opening tag                           *)
(*   idEnd  offset one past the closing quote of its id attribute          *)
(*   tagEnd offset one past the '>' of its opening tag                     *)
(*   close  offset of the '<' of its closing tag                           *)
(*   end    offset one past the '>' of its closing tag                     *)
(***************************************************************************)
\* len('<spectrum index="0" id="'), len('<chromatogram index="0" id="')
OpenLen(kind) == IF kind = "spectrum" THEN 24 ELSE 28
\* len('</spectrum>'), len('</chromatogram>')
CloseLen(kind) == IF kind = "spectrum" THEN 11 ELSE 15
\* len(' defaultArrayLength="1">')
AttrTailLen == 20 + 4

Elem(kind, id, pos, body) ==
    LET idEnd  == pos + OpenLen(kind) + IdLen(id) + 1
        tagEnd == idEnd + AttrTailLen
    IN  [kind |-> kind, id |-> id, pos |-> pos, idEnd |-> idEnd,
         tagEnd |-> tagEnd, close |-> tagEnd + body,
         end |-> tagEnd + body + CloseLen(kind)]

RECURSIVE LayOut(_, _, _, _)
LayOut(scans, fmt, body, pos) ==
    IF scans = <<>> THEN <<>>
    ELSE LET e == Elem("spectrum", StrKey(fmt, Head(scans)), pos, body)
         IN  <<e>> \o LayOut(Tail(scans), fmt, body, e.end + 1)

\* The bytes '<', '>' and ' ' of an id, of an element's two tags and of the
\* root tag <mzML xmlns="http://psi.hupo.org/ms/mzml">.
IdDelims(id, at) ==
    IF id.fmt = "sciex" THEN {at + 8, at + 17, at + 24 + Digits(id.n)} ELSE {}

ElemDelims(e) ==
    {e.pos, e.pos + OpenLen(e.kind) - 15, e.pos + OpenLen(e.kind) - 5,
     e.idEnd, e.tagEnd - 1, e.close, e.end - 1}
    \cup IdDelims(e.id, e.pos + OpenLen(e.kind))

RootLen == 40 + 2
RootDelims == {0, 5, 41}

\* One <offset idRef="ID">N</offset> line of the index list; form "quoted" is
\* the line <offset idRef="scan=N">"N</offset> with a quote before the number.
OffsetLine(kind, form, ref, val, pos) ==
    [kind |-> kind, form |-> form, ref |-> ref, val |-> val, pos |-> pos,
     end |-> pos + 15 + IdLen(ref) + 2 + (IF form = "quoted" THEN 1 ELSE 0)
                 + Digits(val) + 9]

\* The line <indexListOffset>N</indexListOffset>.
IloLine(val, pos) ==
    [kind |-> "ilo", form |-> "default", ref |-> TICKey, val |-> val,
     pos |-> pos, end |-> pos + 17 + Digits(val) + 18]

LineDelims(l) ==
    IF l.kind = "ilo" THEN {l.pos, l.pos + 16, l.end - 18, l.end - 1}
    ELSE {l.pos, l.pos + 7, l.pos + 15 + IdLen(l.ref) + 1, l.end - 9, l.end - 1}
         \cup IdDelims(l.ref, l.pos + 15)

RECURSIVE TrailerLines(_, _, _)
TrailerLines(specs, form, pos) ==
    IF specs = <<>> THEN <<>>
    ELSE LET e   == Head(specs)
             ref == IF form = "quoted" THEN StrKey("scan", e.id.n) ELSE e.id
             l   == OffsetLine("offset", form, ref, e.pos, pos)
         IN  <<l>> \o TrailerLines(Tail(specs), form, l.end + 1)

\* The elements of a file: the spectra from offset hdr on and, with tic, the
\* TIC chromatogram after them.
MkElems(hdr, scans, body, fmt, tic) ==
    LET Chroms(specs) ==
            IF ~tic THEN <<>>
            ELSE <<Elem("chromatogram", TICKey,
                        IF specs = <<>> THEN hdr ELSE specs[Len(specs)].end + 1,
                        200)>>
        Both(specs) == [specs |-> specs, chroms |-> Chroms(specs)]
    IN  Both(LayOut(scans, fmt, body, hdr))

\* The lines of the index list <indexList> at offset ilo: one line per
\* spectrum, the line of the TIC, and the indexListOffset line after
\* </indexList>.
MkIndex(specs, chroms, trailer, ilo) ==
    LET After(ls) == IF ls = <<>> THEN ilo + 12 ELSE ls[Len(ls)].end + 1
        Tic(ls) ==
            IF chroms = <<>> THEN ls
            ELSE ls \o <<OffsetLine("tic", "default", TICKey, chroms[1].pos,
                                    After(ls))>>
        Ilo(ls) == ls \o <<IloLine(ilo, After(ls) + 13)>>
    IN  IF trailer = "none" THEN <<>>
        ELSE Ilo(Tic(TrailerLines(specs, trailer, ilo + 12)))

\* The whole file: the root tag padded to hdr bytes, the spectra, the TIC
\* chromatogram, the index list (trailer \in {"none", "default", "quoted"}),
\* </mzML> and tailpad bytes of padding.  blank holds the stretches [a, b) of
\* line feeds around the elements.
MkFile(hdr, scans, body, fmt, tic, trailer, tailpad) ==
    LET Whole(es, ilo, lines) ==
            LET rootEnd == IF lines = <<>> THEN ilo
                           ELSE lines[Len(lines)].end + 1
                all     == es.specs \o es.chroms
            IN  [size |-> rootEnd + 8 + tailpad, fmt |-> fmt,
                 specs |-> es.specs, chroms |-> es.chroms, lines |-> lines,
                 blank |-> {<<RootLen, hdr>>,
                            <<rootEnd + 7, rootEnd + 8 + tailpad>>}
                           \cup {<<all[i].end, all[i].end + 1>> :
                                    i \in 1..Len(all)},
                 delims |-> RootDelims \cup {rootEnd, rootEnd + 6}
                            \cup UNION {ElemDelims(all[i]) : i \in 1..Len(all)}
                            \cup UNION {LineDelims(lines[i]) :
                                           i \in 1..Len(lines)}
                            \cup (IF lines = <<>> THEN {}
                                  ELSE {ilo, ilo + 10,
                                        lines[Len(lines)].pos - 13,
                                        lines[Len(lines)].pos - 2})]
        Indexed(es, ilo) ==
            Whole(es, ilo, MkIndex(es.specs, es.chroms, trailer, ilo))
        Laid(es) ==
            Indexed(es, IF es.chroms # <<>> THEN es.chroms[1].end + 1
                        ELSE IF es.specs = <<>> THEN hdr
                        ELSE es.specs[Len(es.specs)].end + 1)
    IN  Laid(MkElems(hdr, scans, body, fmt, tic))

Elems(f) == f.specs \o f.chroms

\* The file f, which has no index list and no padding after </mzML>, with
\* one more chromatogram before </mzML>.
AddChrom(f, id, body) ==
    LET old   == f.size - 8
        e     == Elem("chromatogram", id, old, body)
        new   == e.end + 1
    IN  [f EXCEPT
            !.size = new + 8,
            !.chroms = @ \o <<e>>,
            !.blank = (@ \ {<<old + 7, old + 8>>})
                      \cup {<<e.end, e.end + 1>>, <<new + 7, new + 8>>},
            !.delims = (@ \ {old, old + 6})
                       \cup ElemDelims(e) \cup {new, new + 6}]

(***************************************************************************)
(* Windows and patterns.  A window is a pair <<a, b>>: the bytes [a, b).   *)
(***************************************************************************)
\* seeker.seek(p); seeker.read(n): the window read, cut at the end of file.
ReadWin(f, p, n) == <<p, Max(p, Min(p + n, f.size))>>

\* SPECTRUM_OPEN_PATTERN_SIMPLE, b"<spectrum ": the spectra (indices into
\* f.specs) whose 10 bytes '<spectrum ' lie in the window.
SimpleOpenIn(f, a, b) ==
    {i \in 1..Len(f.specs) : f.specs[i].pos >= a /\ f.specs[i].pos + 10 <= b}

\* SPECTRUM_ID_PATTERN_SIMPLE searched from offset a in a buffer ending at b:
\* the first spectrum tag at or after a whose id attribute is complete.
\* ('<*spectrum' also matches a tag whose '<' is cut off.)  0 for no match.
IdSimpleIn(f, a, b) ==
    LET c == {i \in 1..Len(f.specs) :
                 f.specs[i].pos + 1 >= a /\ f.specs[i].idEnd <= b}
    IN  IF c = {} THEN 0 ELSE CHOOSE i \in c : \A j \in c : i <= j

(***************************************************************************)
(* Offset records of self.offset_dict: None, a bare integer, a 1-tuple     *)
(* (start,) or a 2-tuple (start, end).                                     *)
(***************************************************************************)
NoneVal == [t |-> "none", s |-> 0, e |-> 0]
IntVal(s) == [t |-> "int", s |-> s, e |-> 0]
Tup1(s) == [t |-> "tup1", s |-> s, e |-> 0]
Tup2(s, e) == [t |-> "tup2", s |-> s, e |-> e]

\* d[k] = v of a Python dict
Put(d, k, v) == [x \in DOMAIN d \cup {k} |-> IF x = k THEN v ELSE d[x]]

(***************************************************************************)
(* _read_extremes: the first and the last spectrum of the file.            *)
(***************************************************************************)
ExtremesChunk == 128000
ExtremesReads == 100

\* The head pass, from chunk x on: the buffer is [0, end of chunk x).
RECURSIVE HeadPass(_, _)
HeadPass(f, x) ==
    IF x >= ExtremesReads THEN [st |-> "none", entry |-> <<0, 0>>]
    ELSE
      LET bufEnd == Min((x + 1) * ExtremesChunk, f.size)
          tell   == IF x * ExtremesChunk >= f.size THEN x * ExtremesChunk
                    ELSE bufEnd
          m      == SimpleOpenIn(f, 0, bufEnd)
      IN  IF m = {} THEN HeadPass(f, x + 1)
          ELSE
            LET i   == CHOOSE i \in m : \A j \in m : i <= j
                idm == IdSimpleIn(f, 0, bufEnd)
            IN  IF idm = 0
                THEN [st |-> "error", entry |-> <<0, 0>>]   \* AttributeError
                ELSE
                  LET d == TrailingDigits(f.specs[idm].id)
                  IN  [st |-> "found",
                       entry |-> <<IF d < 0 THEN 0 ELSE d,  \* ValueError: 0
                                   tell - ExtremesChunk + f.specs[i].pos>>]

\* The tail pass, from chunk x on: the buffer is [size - x * chunk, size).
RECURSIVE TailPass(_, _)
TailPass(f, x) ==
    IF x >= ExtremesReads \/ x * ExtremesChunk > f.size     \* OSError: break
    THEN [st |-> "none", entry |-> <<0, 0>>]
    ELSE
      LET a    == f.size - x * ExtremesChunk
          tell == Min(a + ExtremesChunk, f.size)
          m    == SimpleOpenIn(f, a, f.size)
      IN  IF m = {} THEN TailPass(f, x + 1)
          ELSE
            LET i   == CHOOSE i \in m : \A j \in m : i >= j
                idm == IdSimpleIn(f, f.specs[i].pos, f.size)
                d   == IF idm = 0 THEN -1 ELSE TrailingDigits(f.specs[idm].id)
            IN  IF d < 0
                THEN [st |-> "error", entry |-> <<0, 0>>]   \* not caught
                ELSE [st |-> "found",
                      entry |-> <<d, tell - ExtremesChunk
                                        + (f.specs[i].pos - a)>>]

\* _read_extremes(): ok, no exception was raised; list, the seek list
\* returned; head and tail, how each pass ended.
ReadExtremes(f) ==
    LET h == HeadPass(f, 0)
        t == TailPass(f, 1)
    IN  [ok   |-> h.st # "error" /\ t.st # "error",
         list |-> (IF h.st = "found" THEN <<h.entry>> ELSE <<>>)
                  \o (IF t.st = "found" THEN <<t.entry>> ELSE <<>>),
         head |-> h.st,
         tail |-> IF h.st = "error" THEN "" ELSE t.st]

(***************************************************************************)
(* _build_index: the trailer reader and the full-scan indexer.             *)
(***************************************************************************)
SlabSize == 1024
SlabTries == 9

LinesOf(f, kind) == {i \in 1..Len(f.lines) : f.lines[i].kind = kind}

\* CHROMATOGRAM_OFFSET_PATTERN matches from the 'f' of idRef="TIC" on.
TicMatchStart(l) == l.pos + 12

\* Lines 286-314: walk back from the end of the file slab by slab.
\* st = [tic: the TIC offset or -1 for None, found, ilo].
RECURSIVE DiscoverTrailer(_, _, _)
DiscoverTrailer(f, k, st) ==
    IF k > SlabTries \/ SlabSize * k > f.size THEN st      \* seek raises: break
    ELSE
      LET w    == f.size - SlabSize * k
          tics == {i \in LinesOf(f, "tic") : TicMatchStart(f.lines[i]) >= w}
          ilos == {i \in LinesOf(f, "ilo") : f.lines[i].pos >= w}
          st2  == [tic   |-> IF tics = {} THEN st.tic
                             ELSE f.lines[CHOOSE i \in tics : TRUE].val,
                   found |-> st.found \/ ilos # {},
                   ilo   |-> IF ilos = {} THEN st.ilo
                             ELSE f.lines[CHOOSE i \in ilos : TRUE].val]
      IN  IF st2.found /\ st2.tic # -1 THEN st2
          ELSE DiscoverTrailer(f, k + 1, st2)

\* One line of the index list (lines 323-355).
\* SPECTRUM_INDEX_PATTERN needs a '"' between '">' and the offset: only a
\* "quoted" line matches it.  SIM_INDEX_PATTERN_SCIEX matches an idRef of
\* the sciex format and captures the cycle number.
ReadIndexLine(d, l, index_regex) ==
    LET match_spec == l.form = "quoted" /\ l.ref.fmt = "scan"
        match_sim  == l.form = "default" /\ l.ref.fmt = "sciex"
    IN  IF l.kind # "offset" THEN d
        ELSE IF ~index_regex
        THEN IF match_spec THEN Put(d, IntKey(l.ref.n), IntVal(l.val))
             ELSE IF match_sim
             \* SPECTRUM_ID_PATTERN2 finds no 'scan=' in the digits: the
             \* key stays the string of digits
             THEN Put(d, StrKey("plain", l.ref.n), Tup1(l.val))
             ELSE d
        ELSE IF match_sim THEN Put(d, IntKey(l.ref.n), Tup1(l.val))
             ELSE d

\* Lines 316-355: read every line from index_list_offset to the end.
RECURSIVE ReadIndex(_, _, _, _, _)
ReadIndex(f, i, ilo, index_regex, d) ==
    IF i > Len(f.lines) THEN d
    ELSE ReadIndex(f, i + 1, ilo, index_regex,
                   IF f.lines[i].pos >= ilo
                   THEN ReadIndexLine(d, f.lines[i], index_regex) ELSE d)

ScratchChunk == 8192
Lookback == 100

\* get_data_indices: the elements whose '<tag ... id="..."' lies inside one
\* of the chunks, each chunk after the first extended by the last Lookback
\* bytes of the one before it.
ScratchFound(f) ==
    {i \in 1..Len(Elems(f)) :
        \E k \in 0..((f.size - 1) \div ScratchChunk) :
            LET ws == IF k = 0 THEN 0 ELSE k * ScratchChunk - Lookback
                we == Min((k + 1) * ScratchChunk, f.size)
            IN  Elems(f)[i].pos >= ws /\ Elems(f)[i].idEnd <= we}

\* _build_index_from_scratch: offset_dict.update({id: (offset,)})
BuildIndexFromScratch(f, d) ==
    LET found == ScratchFound(f)
        keys  == {Elems(f)[i].id : i \in found}
        at(k) == LET i == CHOOSE i \in found : Elems(f)[i].id = k
                 IN  Elems(f)[i].pos
    IN  [x \in DOMAIN d \cup keys |-> IF x \in keys THEN Tup1(at(x)) ELSE d[x]]

BuildIndex(f, from_scratch, index_regex) ==
    LET t  == DiscoverTrailer(f, 1, [tic |-> -1, found |-> FALSE, ilo |-> 0])
        d0 == (TICKey :> (IF t.tic = -1 THEN NoneVal ELSE IntVal(t.tic)))
    IN  IF t.found THEN ReadIndex(f, 1, t.ilo, index_regex, d0)
        ELSE IF from_scratch THEN BuildIndexFromScratch(f, d0)
        ELSE d0

(***************************************************************************)
(* What a call returns.  st is "ok" (an object was returned), "none" (None *)
(* was returned), "error" (an exception, named by err) or "diverge" (the   *)
(* call never returns).  A returned object has a kind, an ID and the bytes *)
(* [from, from + len) of the file it was parsed from.                      *)
(***************************************************************************)
Out(st, err, kind, ID, from, len) ==
    [st |-> st, err |-> err, kind |-> kind, ID |-> ID, from |-> from,
     len |-> len]
Raise(err) == Out("error", err, "", IntKey(0), 0, 0)
Diverge == Out("diverge", "", "", IntKey(0), 0, 0)
ReturnNone == Out("none", "", "", IntKey(0), 0, 0)

\* The bytes [a, b) are white space only.
Blank(f, a, b) == a >= b \/ \E w \in f.blank : w[1] <= a /\ b <= w[2]

\* spec.Spectrum(XML(data)) / spec.Chromatogram(XML(data)) for data the bytes
\* [a, b) of the file: data parses when it is exactly one element with
\* nothing but white space around it; the ID of a spectrum is the scan number
\* at the end of its id, the ID of a chromatogram is its id.
ParseFragment(f, kind, a, b) ==
    LET c == {i \in 1..Len(Elems(f)) :
                 Elems(f)[i].kind = kind
                 /\ a <= Elems(f)[i].pos /\ Elems(f)[i].end <= b
                 /\ Blank(f, a, Elems(f)[i].pos) /\ Blank(f, Elems(f)[i].end, b)}
    IN  IF c = {} THEN Raise("ParseError")
        ELSE LET e == Elems(f)[CHOOSE i \in c : TRUE]
             IN  Out("ok", "", kind,
                     IF kind = "spectrum" /\ TrailingDigits(e.id) >= 0
                     THEN IntKey(TrailingDigits(e.id)) ELSE e.id,
                     a, b - a)

(***************************************************************************)
(* _read_until_tag_end and _read_to_spec_end.                              *)
(***************************************************************************)
MaxSearchLen == 12

\* The seeker's position after _read_until_tag_end called at position p: it
\* reads byte by byte up to and including the first '<', '>' or ' ', at most
\* MaxSearchLen bytes.
ReadUntilTagEnd(f, p) ==
    LET c == {j \in 1..MaxSearchLen : p + j - 1 \in f.delims}
        k == IF c = {} THEN MaxSearchLen ELSE CHOOSE j \in c : \A i \in c : j <= i
    IN  Max(p, Min(p + k, f.size))

\* The first of the bytes '<', '>', ' ' at or after p (the file size for
\* none) and the last one before p (0 is always one).
NextDelim(f, p) ==
    LET c == {x \in f.delims : x >= p}
    IN  IF c = {} THEN f.size ELSE CHOOSE x \in c : \A y \in c : x <= y
PrevDelim(f, p) ==
    LET c == {x \in f.delims : x < p}
    IN  IF c = {} THEN 0 ELSE CHOOSE x \in c : \A y \in c : x >= y

\* A loop that reads step bytes per iteration and looks for a tag finds
\* nothing in a chunk of filler: the position it reaches from p after the
\* iterations whose chunks hold no '<', '>' or ' '.
SkipFiller(f, p, step) == p + ((NextDelim(f, p) - p) \div step) * step
SkipBack(f, p, step) == p - ((p - 1 - PrevDelim(f, p)) \div step) * step

\* The first element of the given kind whose closing tag lies in [a, b);
\* 0 for none.
FirstCloseIn(f, kind, a, b) ==
    LET c == {i \in 1..Len(Elems(f)) :
                 Elems(f)[i].kind = kind /\ Elems(f)[i].close >= a
                 /\ Elems(f)[i].end <= b}
    IN  IF c = {} THEN 0
        ELSE CHOOSE i \in c : \A j \in c : Elems(f)[i].close <= Elems(f)[j].close

SpecEndChunk == 512 * 8

\* The loop of _read_to_spec_end: data_chunk is [start, p).  end_pos is
\* match.end(), an offset into data_chunk.
RECURSIVE SpecEndLoop(_, _, _)
SpecEndLoop(f, start, p0) ==
    LET Found(i) == [st |-> "ok", start |-> start,
                     end |-> Elems(f)[i].end - start]
        Scan(p, p2) ==
            LET s == FirstCloseIn(f, "spectrum", start, p2)
                c == FirstCloseIn(f, "chromatogram", start, p2)
            IN  IF s # 0 THEN Found(s)
                ELSE IF c # 0 THEN Found(c)
                ELSE IF p2 = p
                THEN [st |-> "diverge", start |-> start, end |-> 0]
                ELSE SpecEndLoop(f, start, p2)
        From(p) == Scan(p, ReadUntilTagEnd(f, ReadWin(f, p, SpecEndChunk)[2]))
    IN  From(SkipFiller(f, p0, SpecEndChunk + MaxSearchLen))

ReadToSpecEnd(f, p) == SpecEndLoop(f, p, ReadWin(f, p, SpecEndChunk)[2])

(***************************************************************************)
(* _binary_search.                                                         *)
(***************************************************************************)
JumpChunk == 12800
JumpReads == 100
MaxJumps == 40
CloseRange == 10

\* Python's order on tuples (scan, offset)
TupLess(x, y) == x[1] < y[1] \/ (x[1] = y[1] /\ x[2] < y[2])

\* bisect.bisect_left(a, x), a 0-based position
RECURSIVE BisectLeft(_, _, _, _)
BisectLeft(a, x, lo, hi) ==
    IF lo >= hi THEN lo
    ELSE LET mid == (lo + hi) \div 2
         IN  IF TupLess(a[mid + 1], x) THEN BisectLeft(a, x, mid + 1, hi)
             ELSE BisectLeft(a, x, lo, mid)

\* A list that overwrites the entry at pos where list.insert moves it up.
OverwriteAt(l, pos, e) ==
    IF pos >= Len(l) THEN Append(l, e) ELSE [l EXCEPT ![pos + 1] = e]

\* list.insert(pos, e)
InsertAt(l, pos, e) == SubSeq(l, 1, pos) \o <<e>> \o SubSeq(l, pos + 1, Len(l))

\* int(round(a / b)): Python 3 rounds a half to the even neighbour
RoundDiv(a, b) ==
    LET n == IF b < 0 THEN -a ELSE a
        m == IF b < 0 THEN -b ELSE b
        q == n \div m
        r == n - q * m
    IN  IF 2 * r < m THEN q
        ELSE IF 2 * r > m THEN q + 1
        ELSE IF q % 2 = 0 THEN q ELSE q + 1

\* Lines 199-203: the buffer read at byte_offset bo, as runs of consecutive
\* bytes [a, b) with the buffer index (base) each starts at.  A read that
\* would start before offset 1 starts at offset 1.
JumpRuns(f, bo) ==
    IF bo >= 1
    THEN <<[a |-> bo, b |-> ReadWin(f, bo, JumpReads * JumpChunk)[2],
            base |-> 0]>>
    ELSE
      LET x0   == Min(JumpReads, ((-bo) \div JumpChunk) + 1)
          c    == ReadWin(f, 1, JumpChunk)
          clen == c[2] - c[1]
          p    == bo + x0 * JumpChunk
      IN  [j \in 1..x0 |-> [a |-> 1, b |-> c[2], base |-> (j - 1) * clen]]
          \o (IF x0 < JumpReads
              THEN <<[a |-> p,
                      b |-> ReadWin(f, p, (JumpReads - x0) * JumpChunk)[2],
                      base |-> x0 * clen]>>
              ELSE <<>>)

\* SPECTRUM_OPEN_PATTERN over the bytes [a, b): the spectra whose tag, up to
\* the closing quote of the id, lies in the window.  '<*spectrum' also
\* matches a tag whose '<' is the byte before the window.
OpenIn(f, a, b) ==
    {i \in 1..Len(f.specs) :
        (f.specs[i].pos >= a \/ f.specs[i].pos + 1 = a) /\ f.specs[i].idEnd <= b}

\* The spectra of a set in file order
RECURSIVE InOrder(_)
InOrder(S) ==
    IF S = {} THEN <<>>
    ELSE LET i == CHOOSE i \in S : \A j \in S : i <= j
         IN  <<i>> \o InOrder(S \ {i})

\* re.finditer over the buffer: [i: the spectrum, start: match.start()]
RunMatches(f, r) ==
    LET ms == InOrder(OpenIn(f, r.a, r.b))
    IN  [k \in 1..Len(ms) |->
            [i |-> ms[k], start |-> r.base + Max(f.specs[ms[k]].pos, r.a) - r.a]]

RECURSIVE JumpMatches(_, _, _)
JumpMatches(f, runs, k) ==
    IF k > Len(runs) THEN <<>>
    ELSE RunMatches(f, runs[k]) \o JumpMatches(f, runs, k + 1)

\* A jump search that rewrites the record of a scan it already knows.
RecordScanOver(st, scan, offset) ==
    IF IntKey(scan) \in DOMAIN st.d
    THEN [st EXCEPT !.d = Put(st.d, IntKey(scan), IntVal(offset))]
    ELSE [st EXCEPT
            !.l = InsertAt(st.l, BisectLeft(st.l, <<scan, offset>>, 0, Len(st.l)),
                           <<scan, offset>>),
            !.d = Put(st.d, IntKey(scan), Tup1(offset))]

\* Lines 225-234: a scan that is no key of offset_dict is entered into
\* seek_list and offset_dict.
RecordScan(st, scan, offset) ==
    IF IntKey(scan) \in DOMAIN st.d THEN st
    ELSE [st EXCEPT
            !.l = InsertAt(st.l, BisectLeft(st.l, <<scan, offset>>, 0, Len(st.l)),
                           <<scan, offset>>),
            !.d = Put(st.d, IntKey(scan), Tup1(offset))]

\* Lines 205-238: the matches of one jump, from match k on.
\* st = [d: offset_dict, l: seek_list, fw, bw: jump_history, scale:
\* offset_scale in tenths, jumps, exit, and the locals of the last iteration:
\* m1, p1: element_before and element_after, dir: jump_direction, bo:
\* byte_offset, at: the position of its first read].
\* A rescaling that adds 1 to offset_scale where the loop restores it.
RescaleUp(st, dir, far) ==
    [st EXCEPT
        !.scale = IF far THEN 1 ELSE st.scale + 10,
        !.fw = IF far /\ dir = "forwards" THEN 0 ELSE st.fw,
        !.bw = IF far /\ dir = "backwards" THEN 0 ELSE st.bw]

\* Lines 211-223: a scan beyond the target in the direction of the jump (far)
\* sets offset_scale to 0.1 and resets the history of that direction; any
\* other scan restores offset_scale to 1.
Rescale(st, dir, far) ==
    [st EXCEPT
        !.scale = IF far THEN 1 ELSE 10,
        !.fw = IF far /\ dir = "forwards" THEN 0 ELSE st.fw,
        !.bw = IF far /\ dir = "backwards" THEN 0 ELSE st.bw]

RECURSIVE ScanMatches(_, _, _, _, _, _, _)
ScanMatches(f, ms, k, target, dir, bo, st) ==
    IF k > Len(ms) THEN st
    ELSE
      LET scan == TrailingDigits(f.specs[ms[k].i].id)
          far  == IF dir = "forwards" THEN scan > target ELSE scan < target
          st1  == Rescale(st, dir, far)
          st2  == RecordScan(st1, scan, bo + ms[k].start)
      IN  IF scan < 0 THEN [st EXCEPT !.exit = "ValueError"]
          ELSE IF IntKey(scan) \notin DOMAIN st.d /\ scan = target
          THEN [st2 EXCEPT !.exit = "found"]                \* break_outer
          ELSE ScanMatches(f, ms, k + 1, target, dir, bo, st2)

\* A range check that forgets the upper end.
RangeCheckLow(l, target) == target < l[1][1]

\* Lines 153-160: the target lies outside the scans of the first and the last
\* entry of seek_list.
RangeCheck(l, target) == target < l[1][1] \/ target > l[Len(l)][1]

\* A forwards jump that never snaps to element_before.
ByteOffsetNoSnap(element_before, spec_offset_m1, fw, scale, avg) ==
    TruncDiv(10 * element_before[2] + fw * scale * avg * spec_offset_m1, 10)

\* Lines 180-186: the byte offset of a forwards jump; a target less than
\* CloseRange scans after element_before is read from element_before on.
ByteOffsetForwards(element_before, spec_offset_m1, fw, scale, avg) ==
    IF spec_offset_m1 < CloseRange
    THEN element_before[2]
    ELSE TruncDiv(10 * element_before[2] + fw * scale * avg * spec_offset_m1, 10)

\* Lines 178-179 and 189-190: the count of the direction taken goes up by
\* one, the other one is reset.
JumpHistory(fwd, st) ==
    [fw |-> IF fwd THEN st.fw + 1 ELSE 0,
     bw |-> IF fwd THEN 0 ELSE st.bw + 1]

\* Lines 147-246: one iteration of the jump loop; nothing once the loop is
\* left.
JumpStep(f, target, st) ==
    LET l  == st.l
        n  == Len(l)
        s0 == [st EXCEPT !.jumps = st.jumps + 1]
        \* lines 239-246, after the matches of the jump
        Done(s1) ==
            IF s1.exit # "" THEN s1
            ELSE IF IntKey(target) \in DOMAIN s1.d
            THEN [s1 EXCEPT !.exit = "found"]
            ELSE s1
        \* lines 199-238: read at byte_offset bo and scan the matches
        Jump(s1, fwd, fw, bw, bo) ==
            Done(ScanMatches(f, JumpMatches(f, JumpRuns(f, bo), 1), 1, target,
                             IF fwd THEN "forwards" ELSE "backwards", bo,
                             [s1 EXCEPT !.fw = fw, !.bw = bw, !.bo = bo,
                                        !.dir = IF fwd THEN "forwards"
                                                ELSE "backwards",
                                        !.at = JumpRuns(f, bo)[1].a]))
        \* lines 175-197: the direction and the byte offset of the jump,
        \* int(element[1] +- history * (offset_scale * avg * d))
        Aim(s1, element_before, element_after, avg) ==
            LET spec_offset_m1 == target - element_before[1]
                spec_offset_p1 == element_after[1] - target
                fwd == spec_offset_m1 < spec_offset_p1
                fw  == JumpHistory(fwd, st).fw
                bw  == JumpHistory(fwd, st).bw
            IN  Jump(s1, fwd, fw, bw,
                     IF fwd
                     THEN ByteOffsetForwards(element_before, spec_offset_m1,
                                             fw, st.scale, avg)
                     ELSE TruncDiv(10 * element_after[2]
                                 - bw * st.scale * avg * spec_offset_p1, 10))
        \* lines 163-173
        Between(element_before, element_after) ==
            LET byte_diff == element_after[2] - element_before[2]
                scan_diff == element_after[1] - element_before[1]
                s1 == [s0 EXCEPT !.m1 = element_before, !.p1 = element_after]
            IN  IF scan_diff = 0 THEN [s1 EXCEPT !.exit = "ZeroDivisionError"]
                ELSE Aim(s1, element_before, element_after,
                         RoundDiv(byte_diff, scan_diff))
        \* lines 161-162, insert_position ip
        At(ip) ==
            IF ip >= n THEN [s0 EXCEPT !.exit = "IndexError"]
            ELSE Between(IF ip = 0 THEN l[n] ELSE l[ip], l[ip + 1])
    IN  IF st.exit # "" THEN st
        ELSE IF n = 0 THEN [s0 EXCEPT !.exit = "IndexError"]
        ELSE IF RangeCheck(l, target) THEN [s0 EXCEPT !.exit = "OutOfRange"]
        ELSE At(BisectLeft(l, <<target, 0>>, 0, n))

\* Line 146: for jump in range(n).  The n iterations are done as two halves;
\* the state between them is bound through a one-element set, which makes it
\* a value computed once.
RECURSIVE JumpLoop(_, _, _, _)
JumpLoop(f, target, n, st) ==
    IF n = 0 THEN st
    ELSE IF n = 1 THEN JumpStep(f, target, st)
    ELSE CHOOSE r \in {JumpLoop(f, target, n - n \div 2, s) :
                          s \in {JumpLoop(f, target, n \div 2, st)}} : TRUE

\* A _binary_search that returns None for a target it did not record.
FetchSpectrumQuiet(f, d, target) ==
    IF IntKey(target) \notin DOMAIN d THEN ReturnNone
    ELSE
      LET v == d[IntKey(target)]
          c == {i \in 1..Len(f.specs) : f.specs[i].close >= v.s}
      IN  IF v.t \in {"int", "none"} THEN Raise("TypeError")
          ELSE IF v.s < 0 THEN Raise("OSError")
          ELSE IF c = {} THEN Diverge
          ELSE LET i == CHOOSE i \in c : \A j \in c : i <= j
               IN  ParseFragment(f, "spectrum", v.s, f.specs[i].end)

\* Lines 248-259: read the spectrum at offset_dict[target_index].
FetchSpectrum(f, d, target) ==
    IF IntKey(target) \notin DOMAIN d THEN Raise("KeyError")
    ELSE
      LET v == d[IntKey(target)]
          c == {i \in 1..Len(f.specs) : f.specs[i].close >= v.s}
      IN  IF v.t \in {"int", "none"} THEN Raise("TypeError")
          ELSE IF v.s < 0 THEN Raise("OSError")
          ELSE IF c = {} THEN Diverge         \* reads b"" for ever
          ELSE LET i == CHOOSE i \in c : \A j \in c : i <= j
               IN  ParseFragment(f, "spectrum", v.s, f.specs[i].end)

\* _binary_search(target_index): [d, l: the new offset_dict and seek_list,
\* out: what is returned, jumps: the iterations of the jump loop begun].
BinarySearch(f, d, l, target) ==
    LET st0 == [d |-> d, l |-> l, fw |-> 0, bw |-> 0, scale |-> 10,
                jumps |-> 0, exit |-> "", m1 |-> <<0, 0>>, p1 |-> <<0, 0>>,
                dir |-> "", bo |-> 0, at |-> 0]
        Fetch(st) ==
            [d |-> st.d, l |-> st.l, jumps |-> st.jumps,
             out |-> IF st.exit \in {"", "found"}
                     THEN FetchSpectrum(f, st.d, target)
                     ELSE Raise(st.exit)]
    IN  Fetch(IF IntKey(target) \in DOMAIN d THEN st0
              ELSE JumpLoop(f, target, MaxJumps, st0))

(***************************************************************************)
(* _search_string_identifier.                                              *)
(***************************************************************************)
\* The decimal digits of n occur in, or start, the decimal digits of m.
SubNum(n, m) ==
    \E a \in 0..(Digits(m) - 1) :
        LET t == m \div (10 ^ a)
        IN  Digits(t) >= Digits(n) /\ t % (10 ^ Digits(n)) = n
PrefixNum(n, m) == \E a \in 0..(Digits(m) - 1) : m \div (10 ^ a) = n

\* The pattern '(.*s.*)' matches the id: the string s occurs in it.
Contains(id, s) ==
    CASE s.fmt = "plain" ->
            CASE id.fmt \in {"plain", "scan", "raw", "long"} -> SubNum(s.n, id.n)
              [] id.fmt = "sciex" -> s.n = 1 \/ SubNum(s.n, id.n)
              [] OTHER -> FALSE
      [] s.fmt = "scan"  -> id.fmt \in {"scan", "long"} /\ PrefixNum(s.n, id.n)
      [] s.fmt = "sciex" -> id.fmt = "sciex" /\ id.n = s.n
      [] OTHER -> s = id

StringChunk == 8 * 512

\* Lines 747-775, with the seeker at position p.
RECURSIVE SearchString(_, _, _)
SearchString(f, s, p0) ==
    LET \* start, end = _read_to_spec_end; seek(start); read(end)
        Cut(kind, r) ==
            IF r.st = "diverge" THEN Diverge
            ELSE ParseFragment(f, kind, r.start, Min(r.start + r.end, f.size))
        Scan(p, p2) ==
            LET specs == {i \in 1..Len(f.specs) :
                             f.specs[i].pos >= p /\ f.specs[i].tagEnd <= p2
                             /\ Contains(f.specs[i].id, s)}
                chrs  == {i \in 1..Len(f.chroms) :
                             f.chroms[i].pos >= p /\ f.chroms[i].idEnd <= p2}
            IN  IF specs # {}
                THEN LET e == f.specs[CHOOSE i \in specs : \A j \in specs : i <= j]
                     IN  Cut("spectrum", ReadToSpecEnd(f, e.pos))
                ELSE IF chrs # {}
                THEN LET e == f.chroms[CHOOSE i \in chrs : \A j \in chrs : i <= j]
                     IN  IF e.id # s THEN SearchString(f, s, p2)
                         ELSE Cut("chromatogram", ReadToSpecEnd(f, e.pos))
                ELSE IF p2 = p THEN Raise("NotFound")        \* len(data) == 0
                ELSE SearchString(f, s, p2)
        From(p) == Scan(p, ReadUntilTagEnd(f, ReadWin(f, p, StringChunk)[2]))
    IN  From(SkipFiller(f, p0, StringChunk + MaxSearchLen))

(***************************************************************************)
(* __getitem__.                                                            *)
(***************************************************************************)
\* A __getitem__ that leaves the text handle where the last call left it.
SeekStartKeep(h) == h

\* Line 87: self.file_handler.seek(0)
SeekStart(h) == [h EXCEPT !.pos = 0]

\* iterparse reads the text handle in blocks of this size
XmlBlock == 16 * 1024

\* Lines 90-104: parse the text handle from its position on; the first
\* chromatogram with id TIC is returned.  Only a parse from offset 0 sees the
\* document.
StreamTIC(f, h) ==
    LET c == {i \in 1..Len(f.chroms) : f.chroms[i].id = TICKey}
    IN  IF h.pos # 0 THEN [out |-> Raise("ParseError"), pos |-> f.size]
        ELSE IF c = {} THEN [out |-> Raise("StopIteration"), pos |-> f.size]
        ELSE LET e == f.chroms[CHOOSE i \in c : \A j \in c : i <= j]
             IN  [out |-> Out("ok", "", "chromatogram", e.id, e.pos,
                              e.end - e.pos),
                  pos |-> Min(f.size,
                              XmlBlock * ((e.end + XmlBlock - 1) \div XmlBlock))]

\* Lines 106-119: the identifier is a key of offset_dict.  The text handle h
\* is positioned at start and end characters are read from it.
DirectHit(f, v, h) ==
    LET Cut(r, b) ==
            LET isSpec  == \E i \in 1..Len(f.specs) :
                               f.specs[i].pos = r.start /\ r.start + 9 <= b
                isChrom == \E i \in 1..Len(f.chroms) :
                               f.chroms[i].pos = r.start /\ r.start + 13 <= b
            IN  IF r.st = "diverge" THEN [out |-> Diverge, pos |-> h.pos]
                ELSE [out |-> IF isSpec
                              THEN ParseFragment(f, "spectrum", r.start, b)
                              ELSE IF isChrom
                              THEN ParseFragment(f, "chromatogram", r.start, b)
                              ELSE ReturnNone,
                      pos |-> b]
        Ended(r) == Cut(r, Min(r.start + r.end, f.size))
    IN  IF v.t \in {"none", "int"} THEN [out |-> Raise("TypeError"), pos |-> h.pos]
        ELSE IF v.s < 0 THEN [out |-> Raise("OSError"), pos |-> h.pos]
        ELSE Ended(ReadToSpecEnd(f, v.s))

\* __getitem__(identifier) on an object with offset_dict d, seek_list l and
\* text handle h: [d, l, h: the new state, out, path, jumps].
GetItem(f, d, l, h, key) ==
    LET h0 == SeekStart(h)
        Tic(r) == [d |-> d, l |-> l, h |-> [h0 EXCEPT !.pos = r.pos],
                   out |-> r.out, path |-> "tic", jumps |-> 0]
        Direct(r) == [d |-> d, l |-> l, h |-> [h0 EXCEPT !.pos = r.pos],
                      out |-> r.out, path |-> "direct", jumps |-> 0]
        Jumped(r) == [d |-> r.d, l |-> r.l, h |-> h0, out |-> r.out,
                      path |-> "jump", jumps |-> r.jumps]
    IN  IF ~h.open
        THEN [d |-> d, l |-> l, h |-> h, out |-> Raise("ValueError"),
              path |-> "closed", jumps |-> 0]
        ELSE IF key = TICKey        \* str(identifier).upper() == "TIC"
        THEN Tic(StreamTIC(f, h0))
        ELSE IF key \in DOMAIN d
        THEN Direct(DirectHit(f, d[key], h0))
        ELSE IF key.t = "str"
        THEN [d |-> d, l |-> l, h |-> h0, out |-> SearchString(f, key, 0),
              path |-> "string", jumps |-> 0]
        ELSE Jumped(BinarySearch(f, d, l, key.n))

(***************************************************************************)
(* _search_linear and _interpol_search.                                    *)
(***************************************************************************)
LinearChunk == 8 * 512
InterpolChunk == 8 * 512
FallbackCutoff == 100

\* self.spec_open.search over the bytes [a, b): the first spectrum matched,
\* 0 for none.
FirstOpenIn(f, a, b) ==
    LET c == OpenIn(f, a, b)
    IN  IF c = {} THEN 0 ELSE CHOOSE i \in c : \A j \in c : i <= j

\* Lines 702-718: look for the closing tag chunk by chunk from position p;
\* the absolute offset of its end, -1 when the loop never ends.
RECURSIVE LinearEnd(_, _)
LinearEnd(f, p0) ==
    LET Scan(p, p2) ==
            LET c == FirstCloseIn(f, "spectrum", p, p2)
            IN  IF c # 0 THEN Elems(f)[c].end
                ELSE IF p2 = p THEN -1
                ELSE LinearEnd(f, p2)
        From(p) == Scan(p, ReadUntilTagEnd(f, ReadWin(f, p, LinearChunk)[2]))
    IN  From(SkipFiller(f, p0, LinearChunk + MaxSearchLen))

\* _search_linear(seeker, index) with the seeker at position p:
\* [d: the new offset_dict, out].
RECURSIVE SearchLinear(_, _, _, _)
SearchLinear(f, d, p0, index) ==
    LET \* lines 719-726, once the closing tag is found; partial: it was not
        \* in the chunk of the opening tag
        Ended(spec_start_offset, current_index, partial, spec_end_offset) ==
            LET v == Tup2(spec_start_offset, spec_end_offset)
            IN  IF current_index < 0 THEN [d |-> d, out |-> Raise("ValueError")]
                ELSE IF spec_end_offset < 0 THEN [d |-> d, out |-> Diverge]
                ELSE IF current_index = index
                THEN [d |-> Put(d, IntKey(current_index), v),
                      out |-> ParseFragment(f, "spectrum", spec_start_offset,
                                            spec_end_offset)]
                ELSE SearchLinear(f, IF partial
                                     THEN Put(d, IntKey(current_index), v)
                                     ELSE d,
                                  spec_end_offset, index)
        Opened(spec_start_offset, current_index, c) ==
            Ended(spec_start_offset, current_index, c = 0,
                  IF c # 0 THEN Elems(f)[c].end
                  ELSE LinearEnd(f, spec_start_offset))
        Scan(p, p2, i) ==
            IF i = 0
            THEN IF p2 = p THEN [d |-> d, out |-> Diverge]  \* reads b"" for ever
                 ELSE SearchLinear(f, d, p2, index)
            ELSE Opened(Max(f.specs[i].pos, p), TrailingDigits(f.specs[i].id),
                        FirstCloseIn(f, "spectrum", Max(f.specs[i].pos, p), p2))
        Chunk(p, p2) == Scan(p, p2, FirstOpenIn(f, p, p2))
        From(p) == Chunk(p, ReadUntilTagEnd(f, ReadWin(f, p, LinearChunk)[2]))
    IN  From(SkipFiller(f, p0, LinearChunk + MaxSearchLen))

\* Lines 515-527: step back chunk by chunk from current_position cp until a
\* chunk opens with a scan that is not above the target; the final
\* current_position, -1 when the loop never ends.
RECURSIVE WalkBack(_, _, _, _)
WalkBack(f, cp0, current_index, target) ==
    IF current_index <= target THEN cp0
    ELSE LET cp == SkipBack(f, cp0, InterpolChunk)
             np == Max(cp - InterpolChunk, 0)
             i  == FirstOpenIn(f, np, ReadWin(f, np, InterpolChunk)[2])
             ci == IF i # 0 THEN TrailingDigits(f.specs[i].id) ELSE current_index
         IN  IF np = cp /\ ci > target THEN -1
             ELSE WalkBack(f, np, ci, target)

\* Lines 488-573: the search loop.  st = [d: offset_dict, p: the seeker's
\* position, cp: current_position, used: used_indices, seen: the loop states
\* passed so far].
RECURSIVE InterpolLoop(_, _, _)
InterpolLoop(f, target, st0) ==
    LET \* lines 532-541: the chunk opens with the target
        Match(d1, r) ==
            LET n == r.end - r.start        \* read(end - start)
            IN  IF r.st = "diverge" THEN [d |-> d1, out |-> Diverge]
                ELSE [d |-> Put(d1, IntKey(target), Tup2(r.start, r.end)),
                      out |-> IF n < -1 THEN Raise("ValueError")
                              ELSE ParseFragment(f, "spectrum", r.start,
                                                 IF n = -1 THEN f.size
                                                 ELSE Min(r.start + n, f.size))]
        \* lines 515-531: the target lies less than FallbackCutoff scans back
        Back(d1, cp) ==
            IF cp < 0 THEN [d |-> d1, out |-> Diverge]
            ELSE SearchLinear(f, d1, cp, target)
        \* lines 543-556: int(current_position * (target / current_index) * jumper)
        Leap(st, here, d1, current_index, np) ==
            IF np < 0 THEN [d |-> d1, out |-> Raise("ZeroDivisionError")]
            ELSE InterpolLoop(f, target,
                              [d |-> d1, p |-> np, cp |-> np,
                               used |-> st.used \cup {current_index},
                               seen |-> st.seen \cup {here}])
        Opened(st, here, spec_start_offset, current_index) ==
            LET d1     == Put(st.d, IntKey(current_index), Tup1(spec_start_offset))
                \* jumper_scaling in tenths
                jumper == IF current_index \notin st.used THEN 10
                          ELSE IF current_index > target THEN 9 ELSE 11
                dist   == current_index - target
            IN  IF current_index < 0 THEN [d |-> st.d, out |-> Raise("ValueError")]
                ELSE IF dist < -1 /\ dist > -FallbackCutoff
                THEN SearchLinear(f, d1, spec_start_offset, target)
                ELSE IF dist > 0 /\ dist < FallbackCutoff
                THEN Back(d1, WalkBack(f, st.cp, current_index, target))
                ELSE IF current_index = target
                THEN Match(d1, ReadToSpecEnd(f, spec_start_offset))
                ELSE Leap(st, here, d1, current_index,
                          IF current_index = 0 THEN -1
                          ELSE (st.cp * target * jumper) \div (current_index * 10))
        Scan(st, here, b, i) ==
            IF here \in st.seen THEN [d |-> st.d, out |-> Diverge]
            ELSE IF i # 0
            THEN Opened(st, here, Max(f.specs[i].pos, st.p),
                        TrailingDigits(f.specs[i].id))
            ELSE IF b = st.p                             \* len(data) == 0
            THEN [d |-> st.d, out |-> Raise("TypeError")]
            ELSE InterpolLoop(f, target, [st EXCEPT !.p = b,
                                                    !.seen = st.seen \cup {here}])
        Chunk(st, b) == Scan(st, <<st.p, st.cp, st.used>>, b, FirstOpenIn(f, st.p, b))
        From(st) == Chunk(st, ReadWin(f, st.p, InterpolChunk)[2])
    IN  From([st0 EXCEPT !.p = IF st0.p >= f.size THEN st0.p
                                ELSE SkipFiller(f, st0.p, InterpolChunk)])

\* _interpol_search(target_index): [d: the new offset_dict, out].
InterpolSearch(f, d, target) ==
    InterpolLoop(f, target, [d |-> d, p |-> f.size \div 2, cp |-> f.size \div 2,
                             used |-> {}, seen |-> {}])

(***************************************************************************)
(* Binary read handles.  Each operator gives the number of handles a call  *)
(* opens with get_binary_file_handler() or open(path, "rb") and does not   *)
(* close before it returns or raises.                                      *)
(***************************************************************************)
\* __init__: _read_extremes opens inside a with block (line 619);
\* _build_index opens at line 280 and closes at line 363.
HandlesInit == 0

\* __getitem__: the direct hit opens a seeker at line 110 and never closes
\* it; _search_string_identifier (line 732) and _binary_search (line 144)
\* open inside a with block; the TIC is read from the text handle.
HandlesGetItem(d, h, key) ==
    IF ~h.open THEN 0
    ELSE IF key = TICKey THEN 0
    ELSE IF key \in DOMAIN d THEN 1
    ELSE 0

\* _interpol_search opens a seeker at line 477; no path closes it (the
\* close of line 571 is commented out).
HandlesInterpol == 1

\* The handles open after a call that left n more unclosed: a handle nothing
\* refers to any more is closed when the runtime finalises it, which may
\* happen at once, later or never.
Unclosed(n) == 0..Min(handles + n, MaxHandles)

(***************************************************************************)
(* read and close.                                                         *)
(***************************************************************************)
\* read(size): self.file_handler.read(size); size -1 reads to the end.
ReadHandle(f, h, size) ==
    IF ~h.open THEN [h |-> h, out |-> Raise("ValueError")]
    ELSE LET b == IF size < 0 THEN Max(h.pos, f.size)
                  ELSE ReadWin(f, h.pos, size)[2]
         IN  [h |-> [h EXCEPT !.pos = b],
              out |-> Out("ok", "", "data", IntKey(0), h.pos, b - h.pos)]

\* close(): self.file_handler.close()
CloseHandle(h) == [h EXCEPT !.open = FALSE]

(***************************************************************************)
(* The files and constructor inputs explored.                              *)
(***************************************************************************)
\* scans first, first + 1, ..., first + n - 1
Scans(first, n) == [i \in 1..n |-> first + i - 1]

\* Element bodies: a file of a few kB (shorter than one chunk of
\* _read_extremes) and one of 70 kB per spectrum.
Bodies == {2000, 70000}
\* read(-1) and a read that ends inside the larger files
ReadSizes == {-1, 100000}

Input(hdr, scans, body, fmt, tic, trailer, from_scratch, index_regex) ==
    [hdr |-> hdr, scans |-> scans, body |-> body, fmt |-> fmt, tic |-> tic,
     trailer |-> trailer, tailpad |-> 0, from_scratch |-> from_scratch,
     index_regex |-> index_regex]

Inputs ==
    \* files without index list, opened without build_index_from_scratch
    {Input(500, Scans(1, n), b, "scan", TRUE, "none", FALSE, FALSE) :
        n \in 1..MaxSpectra, b \in Bodies}
    \* the same opened with build_index_from_scratch; scans not starting at 1
    \cup {Input(500, Scans(1, MaxSpectra), 2000, "scan", TRUE, "none", TRUE, FALSE),
          Input(500, Scans(2, MaxSpectra - 1), 70000, "plain", TRUE, "none", TRUE, FALSE)}
    \* files with an index list
    \cup {Input(500, Scans(1, MaxSpectra), 70000, "scan", TRUE, "quoted", FALSE, FALSE)}
    \cup {Input(500, Scans(1, MaxSpectra), 70000, "sciex", TRUE, "default", FALSE, ir) :
            ir \in BOOLEAN}
    \* one spectrum behind a header longer than a chunk; a file without TIC
    \cup {Input(130000, Scans(1, 1), 2000, "scan", TRUE, "none", FALSE, FALSE),
          Input(500, Scans(1, 1), 2000, "scan", FALSE, "none", FALSE, FALSE)}

FileOf(i) == MkFile(i.hdr, i.scans, i.body, i.fmt, i.tic, i.trailer, i.tailpad)

\* The requests made of a file: the scan numbers from one below the first to
\* one above the last, "TIC", the ids of its spectra and the string keys of
\* offset_dict.
ScanRange(f) ==
    (TrailingDigits(f.specs[1].id) - 1)..(TrailingDigits(f.specs[Len(f.specs)].id) + 1)
ScanNumbers(f) == {f.specs[i].id.n : i \in 1..Len(f.specs)}
Requests(f, d) ==
    {IntKey(n) : n \in (Head(f.specs).id.n - 1)..(f.specs[Len(f.specs)].id.n + 1)}
    \cup {TICKey} \cup {f.specs[i].id : i \in 1..Len(f.specs)}
    \cup {k \in DOMAIN d : k.t = "str"}

(***************************************************************************)
(* The state machine.                                                      *)
(***************************************************************************)
NoKey == IntKey(0)
\* first_hit: the key and the outcome of one get of a key of offset_dict
\* (set), and the number of get calls made since, counted up to MaxLater.
\* It is forgotten when another operation is called.
MaxLater == 2
NoHit == [key |-> NoKey, out |-> ReturnNone, set |-> FALSE, later |-> 0]

Result(op, key, out, path, jumps) ==
    [op |-> op, key |-> key, out |-> out, path |-> path, jumps |-> jumps]

\* __init__: the state after construction
Init ==
    \E i \in Inputs :
        \E f \in {FileOf(i)} :
            \E x \in {ReadExtremes(f)} :
                /\ x.ok
                /\ file = f
                /\ cfg = [from_scratch |-> i.from_scratch,
                          index_regex |-> i.index_regex]
                /\ seek_list = x.list
                /\ offset_dict = BuildIndex(f, i.from_scratch, i.index_regex)
                /\ fh = [open |-> TRUE, pos |-> 0]
                /\ result = Result("init", NoKey, ReturnNone, "", 0)
                /\ first_hit = NoHit
                /\ handles = HandlesInit

\* A call that never returns leaves the caller nothing to do.
Running == result.out.st # "diverge"

\* __getitem__(key)
Get(key) ==
    /\ Running
    /\ \E r \in {GetItem(file, offset_dict, seek_list, fh, key)} :
        /\ offset_dict' = r.d
        /\ seek_list' = r.l
        /\ fh' = r.h
        /\ result' = Result("get", key, r.out, r.path, r.jumps)
        /\ \/ /\ first_hit.set
              /\ first_hit' = [first_hit EXCEPT
                                  !.later = Min(first_hit.later + 1, MaxLater)]
           \/ /\ ~first_hit.set
              /\ first_hit' = first_hit
           \/ /\ ~first_hit.set
              /\ r.path \in {"direct", "tic"}
              /\ first_hit' = [key |-> key, out |-> r.out, set |-> TRUE,
                               later |-> 0]
    /\ handles' \in Unclosed(HandlesGetItem(offset_dict, fh, key))
    /\ UNCHANGED <<file, cfg>>

\* _binary_search(n)
BinarySearchCall(n) ==
    /\ Running
    /\ \E r \in {BinarySearch(file, offset_dict, seek_list, n)} :
        /\ offset_dict' = r.d
        /\ seek_list' = r.l
        /\ result' = Result("binary_search", IntKey(n), r.out, "jump", r.jumps)
    /\ first_hit' = NoHit
    /\ handles' \in Unclosed(0)
    /\ UNCHANGED <<file, cfg, fh>>

\* _interpol_search(n)
InterpolSearchCall(n) ==
    /\ Running
    /\ \E r \in {InterpolSearch(file, offset_dict, n)} :
        /\ offset_dict' = r.d
        /\ result' = Result("interpol_search", IntKey(n), r.out, "interpol", 0)
    /\ first_hit' = NoHit
    /\ handles' \in Unclosed(HandlesInterpol)
    /\ UNCHANGED <<file, cfg, seek_list, fh>>

\* read(size)
Read(size) ==
    /\ Running
    /\ \E r \in {ReadHandle(file, fh, size)} :
        /\ fh' = r.h
        /\ result' = Result("read", NoKey, r.out, "", 0)
    /\ first_hit' = NoHit
    /\ handles' \in Unclosed(0)
    /\ UNCHANGED <<file, cfg, offset_dict, seek_list>>

\* close()
Close ==
    /\ Running
    /\ fh' = CloseHandle(fh)
    /\ result' = Result("close", NoKey, ReturnNone, "", 0)
    /\ first_hit' = NoHit
    /\ handles' \in Unclosed(0)
    /\ UNCHANGED <<file, cfg, offset_dict, seek_list>>

Next ==
    \/ \E key \in Requests(file, offset_dict) : Get(key)
    \/ \E n \in ScanRange(file) : BinarySearchCall(n)
    \/ \E n \in ScanNumbers(file) : InterpolSearchCall(n)
    \/ \E size \in ReadSizes : Read(size)
    \/ Close

Spec == Init /\ [][Next]_vars

(***************************************************************************)
(* A second state machine: the two indexers applied to files that carry an *)
(* index list.  It starts from the empty offset_dict of line 57.           *)
(***************************************************************************)
HeaderLens == {500, 9000}
EmptyDict == [k \in {} |-> NoneVal]

IndexInputs ==
    {Input(h, Scans(1, n), b, fmt, tic, tr, FALSE, ir) :
        h \in HeaderLens, n \in 1..MaxSpectra, b \in Bodies,
        fmt \in {"plain", "scan", "sciex"}, tic \in BOOLEAN,
        tr \in {"default", "quoted"}, ir \in BOOLEAN}

InitIndex ==
    \E i \in IndexInputs :
        /\ file = FileOf(i)
        /\ cfg = [from_scratch |-> FALSE, index_regex |-> i.index_regex]
        /\ seek_list = <<>>
        /\ offset_dict = EmptyDict
        /\ fh = [open |-> TRUE, pos |-> 0]
        /\ result = Result("init", NoKey, ReturnNone, "", 0)
        /\ first_hit = NoHit
        /\ handles = 0

\* _build_index(False): the index list is found and read
IndexFromTrailer ==
    /\ offset_dict' = BuildIndex(file, FALSE, cfg.index_regex)
    /\ result' = Result("build_index", NoKey, ReturnNone, "", 0)
    /\ UNCHANGED <<file, cfg, seek_list, fh, first_hit, handles>>

\* _build_index_from_scratch(seeker) on an empty offset_dict
IndexFromScratch ==
    /\ offset_dict' = BuildIndexFromScratch(file, EmptyDict)
    /\ result' = Result("from_scratch", NoKey, ReturnNone, "", 0)
    /\ UNCHANGED <<file, cfg, seek_list, fh, first_hit, handles>>

NextIndex == IndexFromTrailer \/ IndexFromScratch

SpecIndex == InitIndex /\ [][NextIndex]_vars

(***************************************************************************)
(* A third state machine: the two probes of the constructor, the extremes  *)
(* probe _read_extremes and the trailer discovery of _build_index, applied *)
(* to files of many sizes.                                                 *)
(***************************************************************************)
\* Padding after </mzML>: the indexListOffset line lies within the last
\* KiB, between 8 and 9 KiB, between 9 and 10 KiB, or more than 10 KiB
\* before the end of the file.
TailPads == {0, 9000, 9300, 12000}
ProbeHeaders == {100, 130000}
ProbeBodies == {50, 2000, 70000}

ProbeInput(hdr, n, body, fmt, trailer, tailpad) ==
    [hdr |-> hdr, scans |-> Scans(1, n), body |-> body, fmt |-> fmt,
     tic |-> FALSE, trailer |-> trailer, tailpad |-> tailpad,
     from_scratch |-> FALSE, index_regex |-> FALSE]

ProbeInputs ==
    {ProbeInput(h, n, b, fmt, "none", 0) :
        h \in ProbeHeaders, n \in 1..MaxSpectra, b \in ProbeBodies,
        fmt \in {"scan", "raw"}}
    \cup {ProbeInput(100, n, b, "scan", "default", p) :
            n \in 1..MaxSpectra, b \in ProbeBodies, p \in TailPads}

InitProbe ==
    \E i \in ProbeInputs :
        /\ file = FileOf(i)
        /\ cfg = [from_scratch |-> FALSE, index_regex |-> FALSE]
        /\ seek_list = <<>>
        /\ offset_dict = EmptyDict
        /\ fh = [open |-> TRUE, pos |-> 0]
        /\ result = Result("init", NoKey, ReturnNone, "", 0)
        /\ first_hit = NoHit
        /\ handles = 0

\* self.seek_list = self._read_extremes() (line 61); path names the pass
\* that raised.
ProbeExtremes ==
    /\ \E x \in {ReadExtremes(file)} :
        /\ seek_list' = IF x.ok THEN x.list ELSE seek_list
        /\ result' = Result("read_extremes", NoKey,
                             IF x.ok THEN ReturnNone
                             ELSE IF x.head = "error" THEN Raise("AttributeError")
                             ELSE Raise("ValueError"),
                             IF x.head = "error" THEN "head"
                             ELSE IF x.tail = "error" THEN "tail" ELSE "", 0)
    /\ UNCHANGED <<file, cfg, offset_dict, fh, first_hit, handles>>

\* Lines 282-314 of _build_index: out is "ok" with the index list offset
\* when index_found is True, "none" otherwise.
ProbeTrailer ==
    /\ \E t \in {DiscoverTrailer(file, 1, [tic |-> -1, found |-> FALSE,
                                            ilo |-> 0])} :
        result' = Result("discover_trailer", NoKey,
                         IF t.found
                         THEN Out("ok", "", "indexList", NoKey, t.ilo, 0)
                         ELSE ReturnNone, "", 0)
    /\ UNCHANGED <<file, cfg, offset_dict, seek_list, fh, first_hit, handles>>

NextProbe == ProbeExtremes \/ ProbeTrailer

SpecProbe == InitProbe /\ [][NextProbe]_vars

(***************************************************************************)
(* A fourth state machine: the scanning primitives _read_to_spec_end,      *)
(* _search_linear, _search_string_identifier and get_data_indices, each    *)
(* applied to a file from a position of the caller's choice.               *)
(***************************************************************************)
\* Bodies that put the closing tag of the first spectrum well inside the
\* first chunk read from its opening tag, across the end of that chunk, one
\* byte before it, right at it and four bytes after it.
ScanBodies == {2000, 4036, 4040, 4041, 4045}

\* Headers that put the first opening tag far from the end of the first
\* chunk of get_data_indices, across it from more than lookback_size bytes
\* before, and across it from fewer.
LongHeaders == {500, 8080, 8100}

ScanInputs ==
    {Input(500, Scans(1, n), b, "scan", TRUE, "none", FALSE, FALSE) :
        n \in 1..MaxSpectra, b \in ScanBodies}
    \cup {Input(h, Scans(1, n), 2000, "long", TRUE, "none", TRUE, FALSE) :
            h \in LongHeaders, n \in 1..MaxSpectra}

\* Files with the chromatograms TIC and BPC: both openings in one chunk of
\* _search_string_identifier, or the second in a later chunk than the first.
ChromBodies == {2000, 3400}
ChromFiles ==
    {AddChrom(FileOf(Input(500, Scans(1, 1), b, "scan", TRUE, "none", FALSE,
                           FALSE)), BPCKey, 200) : b \in ChromBodies}

\* The strings asked for: the ids of the chromatograms, an id of a spectrum
\* and an id no element has.
SearchStrings == {TICKey, BPCKey, StrKey("scan", 1), StrKey("scan", 9)}

InitScan ==
    \E f \in {FileOf(i) : i \in ScanInputs} \cup ChromFiles :
        /\ file = f
        /\ cfg = [from_scratch |-> FALSE, index_regex |-> FALSE]
        /\ seek_list = <<>>
        /\ offset_dict = EmptyDict
        /\ fh = [open |-> TRUE, pos |-> 0]
        /\ result = Result("init", NoKey, ReturnNone, "", 0)
        /\ first_hit = NoHit
        /\ handles = 0

\* The positions a caller seeks to before it scans: the start of the file
\* and the opening tags of the elements.
StartPoints(f) == {0} \cup {Elems(f)[i].pos : i \in 1..Len(Elems(f))}

\* A returned tuple (start, end): from holds start, len holds end.
Pair(start, end) == Out("ok", "", "pair", NoKey, start, end)

\* seeker.seek(p); self._read_to_spec_end(seeker)
ScanSpecEnd(p) ==
    /\ \E r \in {ReadToSpecEnd(file, p)} :
        result' = Result("read_to_spec_end", IntKey(p),
                         IF r.st = "diverge" THEN Diverge
                         ELSE Pair(r.start, r.end), "", 0)
    /\ UNCHANGED <<file, cfg, offset_dict, seek_list, fh, first_hit, handles>>

\* The arguments of a call that scans from a position: the position at of
\* the seeker and the scan number n asked for.
Call(at, n) == [t |-> "call", fmt |-> "int", at |-> at, n |-> n]

\* seeker.seek(p); self._search_linear(seeker, index)
ScanLinear(p, index) ==
    /\ \E r \in {SearchLinear(file, offset_dict, p, index)} :
        /\ offset_dict' = r.d
        /\ result' = Result("search_linear", Call(p, index), r.out, "linear", 0)
    /\ UNCHANGED <<file, cfg, seek_list, fh, first_hit, handles>>

\* self._search_string_identifier(s)
ScanString(s) ==
    /\ \E out \in {SearchString(file, s, 0)} :
        result' = Result("search_string", s, out, "string", 0)
    /\ UNCHANGED <<file, cfg, offset_dict, seek_list, fh, first_hit, handles>>

NextScan ==
    \/ \E p \in StartPoints(file) : ScanSpecEnd(p)
    \/ \E p \in StartPoints(file), n \in ScanRange(file) : ScanLinear(p, n)
    \/ IndexFromScratch
    \/ \E s \in SearchStrings : ScanString(s)

SpecScan == InitScan /\ [][NextScan]_vars

(***************************************************************************)
(* A fifth state machine: the jump loop of _binary_search, one iteration   *)
(* per step, on files whose scan numbers have gaps.  result carries the    *)
(* loop's local variables in the field loc.                                *)
(***************************************************************************)
GapScans == {<<1, 2, 3>>, <<1, 60, 100>>}
JumpHeaders == {500, 1000, 9000}
\* Targets below, at and above the first scan, absent ones near to and far
\* from their neighbours, and the last scan and its neighbours.
JumpTargets == {0, 1, 2, 5, 40, 60, 99, 100, 101}

JumpInputs ==
    {Input(h, sc, 70000, "scan", TRUE, "none", FALSE, FALSE) :
        h \in JumpHeaders, sc \in GapScans}
    \* files shorter than one chunk of _read_extremes; one spectrum behind a
    \* long header
    \cup {Input(500, Scans(1, n), 2000, "scan", TRUE, "none", FALSE, FALSE) :
            n \in 1..2}
    \cup {Input(130000, Scans(1, 1), 2000, "scan", TRUE, "none", FALSE, FALSE)}

\* The locals of the loop state st
Locals(st) ==
    [fw |-> st.fw, bw |-> st.bw, scale |-> st.scale, exit |-> st.exit,
     m1 |-> st.m1, p1 |-> st.p1, dir |-> st.dir, bo |-> st.bo, at |-> st.at]

\* Lines 139-141: the locals when _binary_search is entered
NoLocals ==
    [fw |-> 0, bw |-> 0, scale |-> 10, exit |-> "", m1 |-> <<0, 0>>,
     p1 |-> <<0, 0>>, dir |-> "", bo |-> 0, at |-> 0]

JumpResult(op, key, out, jumps, loc) ==
    [op |-> op, key |-> key, out |-> out, path |-> "jump", jumps |-> jumps,
     loc |-> loc]

InitJump ==
    \E i \in JumpInputs :
        \E f \in {FileOf(i)} :
            \E x \in {ReadExtremes(f)} :
                /\ x.ok
                /\ file = f
                /\ cfg = [from_scratch |-> i.from_scratch,
                          index_regex |-> i.index_regex]
                /\ seek_list = x.list
                /\ offset_dict = BuildIndex(f, i.from_scratch, i.index_regex)
                /\ fh = [open |-> TRUE, pos |-> 0]
                /\ result = JumpResult("init", NoKey, ReturnNone, 0, NoLocals)
                /\ first_hit = NoHit
                /\ handles = HandlesInit

\* _binary_search(n) is called for a target that is no key of offset_dict
\* (line 145): the loop is entered.
JumpEnter(n) ==
    /\ result.op \in {"init", "binary_search", "get"}
    /\ result.out.st # "diverge"
    /\ IntKey(n) \notin DOMAIN offset_dict
    /\ result' = JumpResult("jump_loop", IntKey(n), ReturnNone, 0, NoLocals)
    /\ UNCHANGED <<file, cfg, offset_dict, seek_list, fh, first_hit, handles>>

\* Lines 146-246: one iteration of the loop
JumpIter ==
    /\ result.op = "jump_loop"
    /\ result.loc.exit = ""
    /\ result.jumps < MaxJumps
    /\ \E st \in {JumpStep(file, result.key.n,
                            [d |-> offset_dict, l |-> seek_list,
                             jumps |-> result.jumps, fw |-> result.loc.fw,
                             bw |-> result.loc.bw, scale |-> result.loc.scale,
                             exit |-> result.loc.exit, m1 |-> result.loc.m1,
                             p1 |-> result.loc.p1, dir |-> result.loc.dir,
                             bo |-> result.loc.bo, at |-> result.loc.at])} :
        /\ offset_dict' = st.d
        /\ seek_list' = st.l
        /\ result' = JumpResult("jump_loop", result.key, ReturnNone, st.jumps,
                                Locals(st))
    /\ UNCHANGED <<file, cfg, fh, first_hit, handles>>

\* Lines 248-259, or the exception that left the loop
JumpLeave ==
    /\ result.op = "jump_loop"
    /\ result.loc.exit # "" \/ result.jumps = MaxJumps
    /\ result' = JumpResult("binary_search", result.key,
                            IF result.loc.exit \in {"", "found"}
                            THEN FetchSpectrum(file, offset_dict, result.key.n)
                            ELSE Raise(result.loc.exit),
                            result.jumps, result.loc)
    /\ UNCHANGED <<file, cfg, offset_dict, seek_list, fh, first_hit, handles>>

\* __getitem__(n) for a key of offset_dict (lines 106-119), between two
\* calls of _binary_search
JumpGet(n) ==
    /\ result.op \in {"init", "binary_search", "get"}
    /\ result.out.st # "diverge"
    /\ IntKey(n) \in DOMAIN offset_dict
    /\ \E r \in {GetItem(file, offset_dict, seek_list, fh, IntKey(n))} :
        /\ offset_dict' = r.d
        /\ seek_list' = r.l
        /\ fh' = r.h
        /\ result' = [JumpResult("get", IntKey(n), r.out, r.jumps, NoLocals)
                         EXCEPT !.path = r.path]
    /\ handles' \in Unclosed(HandlesGetItem(offset_dict, fh, IntKey(n)))
    /\ UNCHANGED <<file, cfg, first_hit>>

NextJump ==
    \/ \E n \in JumpTargets : JumpEnter(n)
    \/ JumpIter
    \/ JumpLeave
    \/ \E n \in JumpTargets : JumpGet(n)

SpecJump == InitJump /\ [][NextJump]_vars

(***************************************************************************)
(* The properties checked.                                                 *)
(***************************************************************************)
\* The scans of the first and the last entry of seek_list
FirstScan == seek_list[1][1]
LastScan == seek_list[Len(seek_list)][1]

\* The file holds a spectrum whose scan number is n / a chromatogram TIC
Present(n) ==
    \E i \in 1..Len(file.specs) : TrailingDigits(file.specs[i].id) = n
HasTIC == \E i \in 1..Len(file.chroms) : file.chroms[i].id = TICKey

\* The call just made returned the spectrum with ID n
Returned(r, n) == r.out.st = "ok" /\ r.out.kind = "spectrum" /\ r.out.ID = IntKey(n)

\* C1: in every reachable state the seek list is sorted ascending by scan id
\* and holds no two entries with the same scan id.
C1_SeekListSortedUnique ==
    \A i \in 1..(Len(seek_list) - 1) : seek_list[i][1] < seek_list[i + 1][1]

\* C2: binary_search(n), for n between the first and the last scan of the
\* seek list and present in the file, returns the spectrum with ID n, whatever
\* offset_dict and seek_list hold.
C2_BinarySearchReturnsTarget ==
    [][(/\ result'.op = "binary_search"
        /\ seek_list # <<>>
        /\ FirstScan <= result'.key.n /\ result'.key.n <= LastScan
        /\ Present(result'.key.n))
       => Returned(result', result'.key.n)]_vars

\* C3: interpolation_search(n), for n between the first and the last scan
\* and present in the file, terminates and returns the spectrum with ID n.
C3_InterpolSearchReturnsTarget ==
    [][(/\ result'.op = "interpol_search"
        /\ seek_list # <<>>
        /\ FirstScan <= result'.key.n /\ result'.key.n <= LastScan
        /\ Present(result'.key.n))
       => Returned(result', result'.key.n)]_vars

\* C4: get(n) on an open reader, for an integer n that is no key of
\* offset_dict and lies below the first or above the last scan of the seek
\* list, fails with OutOfRange and leaves offset_dict and seek_list as they
\* were.
C4_OutOfRangeBeforeChange ==
    [][(/\ result'.op = "get"
        /\ result'.key.t = "int"
        /\ fh.open
        /\ result'.key \notin DOMAIN offset_dict
        /\ seek_list # <<>>
        /\ (result'.key.n < FirstScan \/ result'.key.n > LastScan))
       => /\ result'.out = Raise("OutOfRange")
          /\ offset_dict' = offset_dict
          /\ seek_list' = seek_list]_vars

\* A get above the last scan of a seek list of several entries was refused,
\* with offset_dict holding other integer keys.
C4_Witness ==
    /\ result.op = "get"
    /\ result.key.t = "int"
    /\ result.key \notin DOMAIN offset_dict
    /\ result.out = Raise("OutOfRange")
    /\ Len(seek_list) > 2
    /\ result.key.n > LastScan
    /\ \E k \in DOMAIN offset_dict : k.t = "int"

\* C5: when the file holds a chromatogram TIC, get("TIC") on an open reader
\* returns the chromatogram with ID TIC after any sequence of earlier calls,
\* wherever they left the text handle.
C5_TicAlwaysReturned ==
    [][(/\ result'.op = "get"
        /\ result'.key = TICKey
        /\ fh.open
        /\ HasTIC)
       => /\ result'.out.st = "ok"
          /\ result'.out.kind = "chromatogram"
          /\ result'.out.ID = TICKey]_vars

\* get("TIC") succeeded at least two get calls after a direct hit that
\* returned a spectrum (and so left the text handle behind it).
C5_Witness ==
    /\ result.op = "get"
    /\ result.key = TICKey
    /\ result.out.st = "ok"
    /\ first_hit.set
    /\ first_hit.out.kind = "spectrum"
    /\ first_hit.later = MaxLater

\* C6: a get of a key of offset_dict returns what an earlier get of the same
\* key returned, whatever get calls were made in between, and a direct-hit
\* get leaves offset_dict and seek_list unchanged.
C6_RepeatedGetSameFragment ==
    [][(result'.op = "get" /\ fh.open /\ result'.key \in DOMAIN offset_dict)
       => /\ offset_dict' = offset_dict
          /\ seek_list' = seek_list
          /\ (first_hit.set /\ first_hit.key = result'.key)
             => result'.out = first_hit.out]_vars

\* A spectrum was returned by a direct hit, other get calls followed, and a
\* direct hit returned it again.
C6_Witness ==
    /\ result.op = "get"
    /\ result.path = "direct"
    /\ result.out.st = "ok"
    /\ first_hit.set
    /\ first_hit.key = result.key
    /\ first_hit.later = MaxLater

\* C7: a get or binary_search of the scan of the first or of the last entry
\* of the seek list returns that spectrum without beginning an iteration of
\* the jump loop, also when the scan is no key of offset_dict.
C7_ExtremesWithoutJump ==
    [][(/\ result'.op \in {"get", "binary_search"}
        /\ result'.key.t = "int"
        /\ fh.open
        /\ seek_list # <<>>
        /\ result'.key.n \in {FirstScan, LastScan})
       => Returned(result', result'.key.n) /\ result'.jumps = 0]_vars

\* C8: for a file with exactly one spectrum the seek list built by the
\* constructor has length one, and get of the spectrum's scan succeeds.
C8_OneSpectrumOneEntry ==
    Len(file.specs) = 1
    => /\ result.op = "init" => Len(seek_list) = 1
       /\ (/\ result.op = "get"
           /\ result.key = IntKey(TrailingDigits(file.specs[1].id))
           /\ result.path # "closed")
          => Returned(result, result.key.n)

\* C9: for a file with scans 1..N and no index list, opened with
\* build_index_from_scratch, offset_dict holds the integer keys 1..N and
\* get(n) succeeds for every n in 1..N.
C9_ScratchIntegerKeys ==
    (/\ cfg.from_scratch
     /\ file.lines = <<>>
     /\ \A i \in 1..Len(file.specs) : TrailingDigits(file.specs[i].id) = i)
    => /\ \A n \in 1..Len(file.specs) : IntKey(n) \in DOMAIN offset_dict
       /\ (/\ result.op = "get"
           /\ result.key.t = "int"
           /\ result.key.n \in 1..Len(file.specs)
           /\ result.path # "closed")
          => Returned(result, result.key.n)

\* C10: for a file with an index list, the mapping built by the full scan
\* has the keys of the mapping read from the index list, and for each key the
\* same start offset.
C10_ScratchEqualsTrailer ==
    result.op = "from_scratch"
    => LET t == BuildIndex(file, FALSE, cfg.index_regex)
       IN  /\ DOMAIN offset_dict = DOMAIN t
           /\ \A k \in DOMAIN t : offset_dict[k].s = t[k].s

\* C11: between calls no binary read handle is open: every handle opened by
\* the constructor, by get or by interpolation_search is closed by the time
\* the call returns or raises.
C11_NoBinaryHandleOpen == handles = 0

\* What the trailer discovery of _build_index finds in the file
Discovered ==
    DiscoverTrailer(file, 1, [tic |-> -1, found |-> FALSE, ilo |-> 0])

\* C12: after construction offset_dict has the key TIC only if a TIC offset
\* line was read from the trailer (or the full scan ran and found the
\* chromatogram); when no trailer is found and build_index_from_scratch is
\* false, offset_dict has no keys at all.
C12_TicKeyOnlyFromTrailer ==
    result.op = "init"
    => /\ TICKey \in DOMAIN offset_dict
          => \/ Discovered.tic # -1
             \/ ~Discovered.found /\ cfg.from_scratch /\ HasTIC
       /\ (~Discovered.found /\ ~cfg.from_scratch)
          => DOMAIN offset_dict = {}

\* The exceptions raised inside the jump loop of _binary_search
LoopErrors == {"OutOfRange", "IndexError", "ZeroDivisionError", "ValueError"}

\* C13: a jump search (binary_search, or a get that falls to it) begins at
\* most 40 iterations of the jump loop; when the loop ends without an error
\* and without the target among the keys of offset_dict, all 40 iterations
\* were run and the call fails with the not-found error (KeyError) and
\* returns no fragment.
C13_FortyJumpsThenNotFound ==
    [][(result'.op \in {"binary_search", "get"} /\ result'.path = "jump")
       => /\ result'.jumps <= 40
          /\ (/\ result'.key \notin DOMAIN offset_dict'
              /\ ~(result'.out.st = "error" /\ result'.out.err \in LoopErrors))
             => /\ result'.jumps = 40
                /\ result'.out = Raise("KeyError")]_vars

\* A jump search ran its 40 iterations, did not record the target and
\* failed with KeyError.
C13_Witness ==
    /\ result.op \in {"binary_search", "get"}
    /\ result.path = "jump"
    /\ result.jumps = 40
    /\ result.key \notin DOMAIN offset_dict
    /\ result.out = Raise("KeyError")

\* C14: every record of offset_dict that has both components, (start, end),
\* satisfies start < end, with both offsets absolute positions inside the
\* file.
C14_RecordsStartBeforeEnd ==
    \A k \in DOMAIN offset_dict :
        offset_dict[k].t = "tup2"
        => /\ 0 <= offset_dict[k].s
           /\ offset_dict[k].s < offset_dict[k].e
           /\ offset_dict[k].e <= file.size

\* The key index_regex yields for an idRef when it captures the whole idRef
\* as nativeID, as b'idRef="(?P<nativeID>[^"]*)">(?P<offset>[0-9]*)</offset>'
\* does: an integer when the idRef is all digits, the string otherwise.
UserKey(ref) == IF ref.fmt = "plain" THEN IntKey(ref.n) ELSE ref

\* C15: with an index_regex given, the index list is read with that
\* pattern: every <offset idRef="ID">N</offset> line it matches is stored
\* under the captured nativeID, an integer when it is all digits and a
\* string otherwise, with offset N.
C15_UserPatternReadsIndex ==
    (result.op = "build_index" /\ cfg.index_regex /\ Discovered.found)
    => \A i \in LinesOf(file, "offset") :
           (file.lines[i].form = "default" /\ file.lines[i].pos >= Discovered.ilo)
           => /\ UserKey(file.lines[i].ref) \in DOMAIN offset_dict
              /\ offset_dict[UserKey(file.lines[i].ref)].s = file.lines[i].val

\* How often the entry e occurs in the list l
Count(l, e) == Cardinality({i \in 1..Len(l) : l[i] = e})

\* C16: offset_dict and seek_list only grow: no call removes a key from
\* offset_dict or an entry from seek_list.
C16_MapAndListOnlyGrow ==
    [][/\ DOMAIN offset_dict \subseteq DOMAIN offset_dict'
       /\ Len(seek_list) <= Len(seek_list')
       /\ \A i \in 1..Len(seek_list) :
              Count(seek_list, seek_list[i]) <= Count(seek_list', seek_list[i])]_vars

\* A get that went through the jump search has entered a new scan between
\* the two entries the constructor put into seek_list, and its key into
\* offset_dict.
C16_Witness ==
    /\ result.op = "get"
    /\ result.path = "jump"
    /\ Len(seek_list) >= 3
    /\ result.key \in DOMAIN offset_dict
    /\ FirstScan < result.key.n /\ result.key.n < LastScan

\* C17: the trailer discovery reports the index list as found whenever an
\* indexListOffset line starts within the last 10 KiB of the file, whatever
\* the size of the file.
C17_TrailerFoundInLastTenKiB ==
    (/\ result.op = "discover_trailer"
     /\ \E i \in LinesOf(file, "ilo") :
            file.lines[i].pos >= file.size - 10 * SlabSize)
    => result.out.st = "ok"

\* The ids of the file end in digits.
Parsable == \A i \in 1..Len(file.specs) : TrailingDigits(file.specs[i].id) >= 0

\* C18: the offset the head pass of the extremes probe records is the
\* absolute offset of the first <spectrum tag of the file, whichever chunk
\* it is first matched in and however short the file is.
C18_HeadOffsetIsAbsolute ==
    (/\ result.op = "read_extremes"
     /\ result.out.st # "error"
     /\ Len(file.specs) >= 1)
    => /\ Len(seek_list) >= 1
       /\ seek_list[1][2] = file.specs[1].pos

\* C19: for a file of at least two spectra the extremes probe returns two
\* entries, the second one the scan number and the absolute offset of the
\* last <spectrum tag of the file, whatever the size of the file.
C19_TwoEntriesForTwoSpectra ==
    (/\ result.op = "read_extremes"
     /\ Len(file.specs) >= 2
     /\ Parsable)
    => /\ result.out.st # "error"
       /\ Len(seek_list) = 2
       /\ seek_list[2] = <<TrailingDigits(file.specs[Len(file.specs)].id),
                           file.specs[Len(file.specs)].pos>>

\* C20: an id without trailing digits makes neither pass of the extremes
\* probe raise: every entry the probe records for such an id has the scan
\* number 0.
C20_UnparsableIdIsScanZero ==
    (/\ result.op = "read_extremes"
     /\ Len(file.specs) >= 1
     /\ ~Parsable)
    => /\ result.out.st # "error"
       /\ \A i \in 1..Len(seek_list) : seek_list[i][1] = 0

\* The end of the first closing tag (</spectrum> or </chromatogram>) that
\* starts at or after p; -1 for none.
FirstCloseAfter(p) ==
    LET c == {i \in 1..Len(Elems(file)) : Elems(file)[i].close >= p}
    IN  IF c = {} THEN -1
        ELSE Elems(file)[CHOOSE i \in c :
                            \A j \in c : Elems(file)[i].close
                                         <= Elems(file)[j].close].end

\* C21: _read_to_spec_end called at position p returns (p, e) with e the
\* absolute offset one past the first closing tag at or after p.
C21_SpecEndIsAbsolute ==
    (/\ result.op = "read_to_spec_end"
     /\ FirstCloseAfter(result.key.n) # -1)
    => /\ result.out.st = "ok"
       /\ result.out.from = result.key.n
       /\ result.out.len = FirstCloseAfter(result.key.n)

\* The spectrum with scan number n (an index into file.specs); 0 for none.
SpectrumOf(n) ==
    LET c == {i \in 1..Len(file.specs) : TrailingDigits(file.specs[i].id) = n}
    IN  IF c = {} THEN 0 ELSE CHOOSE i \in c : TRUE

\* C22: however the end of a read falls relative to a </spectrum> tag,
\* _search_linear records for a spectrum the end of that spectrum's own
\* closing tag and skips no spectrum: a spectrum that starts at or after the
\* position of the seeker is returned whole.
C22_LinearKeepsCloseTagWhole ==
    result.op = "search_linear"
    => /\ \A k \in DOMAIN offset_dict :
              offset_dict[k].t = "tup2"
              => /\ SpectrumOf(k.n) # 0
                 /\ offset_dict[k].s = file.specs[SpectrumOf(k.n)].pos
                 /\ offset_dict[k].e = file.specs[SpectrumOf(k.n)].end
       /\ (/\ SpectrumOf(result.key.n) # 0
           /\ file.specs[SpectrumOf(result.key.n)].pos >= result.key.at)
          => result.out = Out("ok", "", "spectrum", IntKey(result.key.n),
                              file.specs[SpectrumOf(result.key.n)].pos,
                              file.specs[SpectrumOf(result.key.n)].end
                              - file.specs[SpectrumOf(result.key.n)].pos)

\* C30: _search_linear returns or raises on every file; when no spectrum
\* with the requested scan number starts at or after the position of the
\* seeker it fails with NotFound.
C30_LinearSearchTerminates ==
    result.op = "search_linear"
    => /\ result.out.st # "diverge"
       /\ (\/ SpectrumOf(result.key.n) = 0
           \/ file.specs[SpectrumOf(result.key.n)].pos < result.key.at)
          => result.out = Raise("NotFound")

\* C23: the full scan of the file records every spectrum and chromatogram
\* opening under its id with the absolute offset of its '<', wherever the
\* opening lies relative to the chunks read.
C23_ScratchRecordsEveryOpening ==
    result.op = "from_scratch"
    => \A i \in 1..Len(Elems(file)) :
           /\ Elems(file)[i].id \in DOMAIN offset_dict
           /\ offset_dict[Elems(file)[i].id] = Tup1(Elems(file)[i].pos)

\* The loop has begun an iteration that chose its neighbours: it passed the
\* range check of lines 151-160.
Aimed(r) ==
    /\ r.op = "jump_loop"
    /\ r.jumps >= 1
    /\ r.loc.exit # "OutOfRange"

\* C25: in every iteration of the jump loop the neighbours chosen satisfy
\* m1.id < target <= p1.id, so that the divisor p1.id - m1.id is positive;
\* no iteration fails for want of a neighbour.
C25_NeighboursBracketTarget ==
    Aimed(result)
    => /\ result.loc.exit \notin {"IndexError", "ZeroDivisionError"}
       /\ result.loc.m1[1] < result.key.n
       /\ result.key.n <= result.loc.p1[1]
       /\ result.loc.p1[1] - result.loc.m1[1] > 0

\* C26: every entry an iteration of the jump loop adds to offset_dict and to
\* seek_list holds the absolute offset of the '<' of the spectrum with that
\* scan number.
C26_JumpRecordsTagStart ==
    [][result'.op = "jump_loop"
       => /\ \A k \in DOMAIN offset_dict' \ DOMAIN offset_dict :
                 /\ SpectrumOf(k.n) # 0
                 /\ offset_dict'[k] = Tup1(file.specs[SpectrumOf(k.n)].pos)
          /\ \A i \in 1..Len(seek_list') :
                 Count(seek_list', seek_list'[i]) > Count(seek_list, seek_list'[i])
                 => /\ SpectrumOf(seek_list'[i][1]) # 0
                    /\ seek_list'[i][2]
                       = file.specs[SpectrumOf(seek_list'[i][1])].pos]_vars

\* The iteration read the file: it chose a direction and a byte offset.
Jumped(r) ==
    Aimed(r) /\ r.loc.exit \notin {"IndexError", "ZeroDivisionError"}

C28_ScaleAndHistory ==
    /\ result.loc.scale \in {1, 10}
    /\ result.loc.fw = 0 \/ result.loc.bw = 0

\* The loop continues after an iteration that went too far (offset_scale
\* 0.1) and after backwards jumps in a row (offset_scale 1).
C28_Witness ==
    /\ result.op = "jump_loop"
    /\ result.jumps >= 2
    /\ result.loc.exit = ""
    /\ \/ result.loc.scale = 1
       \/ result.loc.scale = 10 /\ result.loc.bw >= 2

\* The offset s is the offset of the '<' of an element of the file.
AtTag(s) == \E i \in 1..Len(Elems(file)) : Elems(file)[i].pos = s

\* C24: a get of a key of offset_dict whose stored offset is not the start
\* of a <spectrum or <chromatogram tag, or lies outside the file, fails with
\* an error; it does not return None.
C24_WrongOffsetFails ==
    (/\ result.op = "get"
     /\ result.path = "direct"
     /\ offset_dict[result.key].t \in {"tup1", "tup2"}
     /\ ~AtTag(offset_dict[result.key].s))
    => result.out.st = "error"

\* C29: _search_string_identifier returns the chromatogram whose id equals
\* the string asked for whenever the file has one, wherever its opening tag
\* lies among the others; when no spectrum id contains the string and no
\* chromatogram id equals it, the call fails with NotFound.
C29_StringFindsChromatogram ==
    result.op = "search_string"
    => LET s     == result.key
           chrs  == {i \in 1..Len(file.chroms) : file.chroms[i].id = s}
           specs == {i \in 1..Len(file.specs) : Contains(file.specs[i].id, s)}
       IN  /\ (chrs # {} /\ specs = {})
              => /\ result.out.st = "ok"
                 /\ result.out.kind = "chromatogram"
                 /\ result.out.ID = s
           /\ (chrs = {} /\ specs = {}) => result.out = Raise("NotFound")

=============================================================================
